---- MODULE Spec2Model ----
(***************************************************************************)
(* Account linking of the Pixora backend: the Telegram Login Widget hash   *)
(* check (src/server.js) and the code pairing protocol between a web       *)
(* session and a Telegram chat (src/unnamed/part_000).                     *)
(*                                                                         *)
(* Strings are sequences of UTF-16 code units (numbers), so that sort(),   *)
(* trim(), toUpperCase() and toString() are computed as JavaScript does.   *)
(*                                                                         *)
(* A handler runs atomically up to its next await (one event loop); an     *)
(* awaited store call is answered by the store in a step of its own, and   *)
(* the handler resumes in a later step.  Two suspended invocations with    *)
(* the same arguments and the same position are one element of inflight.   *)
(* Date.now() is a logical clock that advances with every registered code, *)
(* so that a timestamp names the entry an initiate call created.           *)
(***************************************************************************)
EXTENDS Integers, Sequences, FiniteSets, TLC

\* ------------------------------------------------------------------------
\* Bounds of the model
\* ------------------------------------------------------------------------
\* number of handler invocations that may be suspended at an await at once
MaxInFlight == 2
\* number of codes initiate may put in the registry in one run
MaxIssued == 2

\* ------------------------------------------------------------------------
\* Strings
\* ------------------------------------------------------------------------
NL == <<10>>
EQ == <<61>>
HashKey == <<104, 97, 115, 104>>
IdKey == <<105, 100>>
UsernameKey == <<117, 115, 101, 114, 110, 97, 109, 101>>

Min2(a, b) == IF a < b THEN a ELSE b

\* s < t in the order Array.prototype.sort() uses without a comparator
StrLess(s, t) ==
    \/ \E i \in 1..Min2(Len(s), Len(t)) :
          /\ s[i] < t[i]
          /\ \A j \in 1..(i - 1) : s[j] = t[j]
    \/ /\ Len(s) < Len(t)
       /\ \A j \in 1..Len(s) : s[j] = t[j]

StrLeq(s, t) == s = t \/ StrLess(s, t)

IsSpace(c) == c \in {9, 10, 11, 12, 13, 32}

RECURSIVE TrimStart(_)
TrimStart(s) ==
    IF s # <<>> /\ IsSpace(Head(s)) THEN TrimStart(Tail(s)) ELSE s

RECURSIVE TrimEnd(_)
TrimEnd(s) ==
    IF s # <<>> /\ IsSpace(s[Len(s)]) THEN TrimEnd(SubSeq(s, 1, Len(s) - 1)) ELSE s

\* String.prototype.trim
Trim(s) == TrimEnd(TrimStart(s))

UpperChar(c) == IF c >= 97 /\ c <= 122 THEN c - 32 ELSE c

\* String.prototype.toUpperCase (ASCII)
ToUpperCase(s) == [i \in 1..Len(s) |-> UpperChar(s[i])]

RECURSIVE Digits(_)
Digits(n) ==
    IF n < 10 THEN <<48 + n>> ELSE Digits(n \div 10) \o <<48 + (n % 10)>>

\* Number.prototype.toString for an integer
NumToString(n) == IF n < 0 THEN <<45>> \o Digits(0 - n) ELSE Digits(n)

HexDigit(n) == IF n < 10 THEN 48 + n ELSE 87 + n

RECURSIVE ToHex(_)
\* Buffer.prototype.toString('hex')
ToHex(bytes) ==
    IF bytes = <<>> THEN <<>>
    ELSE <<HexDigit(Head(bytes) \div 16), HexDigit(Head(bytes) % 16)>> \o ToHex(Tail(bytes))

\* ------------------------------------------------------------------------
\* Hash Verifier (src/server.js)
\* ------------------------------------------------------------------------
\* SHA-256 and HMAC-SHA256 are modelled as collision-free: a digest is the
\* record of what was hashed.
Sha256(m) == [alg |-> "sha256", msg |-> m]
HmacSha256Hex(k, m) == [alg |-> "hmac-sha256", key |-> k, msg |-> m]

\* `${key}=${data.key}`: the field named "key", which no payload has
ItemDotKey(data, key) == key \o EQ \o <<117, 110, 100, 101, 102, 105, 110, 101, 100>>

\* `${key}=${data[key]}`
Item(data, key) == key \o EQ \o data[key]

RECURSIVE SortJoin(_, _)
\* .sort().join('\n') of the items of the keys in keys
SortJoin(data, keys) ==
    IF keys = {} THEN <<>>
    ELSE LET k == CHOOSE x \in keys : \A y \in keys : StrLeq(Item(data, x), Item(data, y))
             rest == keys \ {k}
         IN  IF rest = {} THEN Item(data, k)
             ELSE Item(data, k) \o NL \o SortJoin(data, rest)

CheckString(data) == SortJoin(data, {key \in DOMAIN data : key # HashKey})

validateTelegramHash(data, BOT_TOKEN) ==
    IF BOT_TOKEN = <<>> THEN FALSE
    ELSE /\ HashKey \in DOMAIN data
         /\ HmacSha256Hex(Sha256(BOT_TOKEN), CheckString(data)) = data[HashKey]

\* ------------------------------------------------------------------------
\* Inputs
\* ------------------------------------------------------------------------
\* req.userId values the auth middleware lets through
Users == {"u1", "u2"}
NoUser == "none"
\* ctx.chat.id values (a private chat and a group chat)
Chats == {5, -7}
\* what crypto.randomBytes(3) may return
RandomBytes == {<<163, 185, 196>>, <<0, 17, 255>>}
\* ctx.message.text values: " a3b9c4" and "0011FF\n"
Texts == {<<32, 97, 51, 98, 57, 99, 52>>, <<48, 48, 49, 49, 70, 70, 10>>}
\* null, and the empty string: both are falsy and no row holds either
Null == <<>>
Truthy(v) == v # Null
BOT_TOKEN == <<84>>
OtherToken == <<87>>

\* a payload as the login widget signs it under the secret token
Signed(fields, token) ==
    [k \in DOMAIN fields \cup {HashKey} |->
        IF k = HashKey THEN HmacSha256Hex(Sha256(token), CheckString(fields)) ELSE fields[k]]

IdOnly(chat) == [k \in {IdKey} |-> NumToString(chat)]
IdAndName(chat) ==
    [k \in {IdKey, UsernameKey} |-> IF k = IdKey THEN NumToString(chat) ELSE <<98, 111>>]

\* req.query values of /api/auth/telegram: a payload signed by Telegram,
\* and a signed payload whose id was replaced
WidgetRequests ==
    {Signed(IdAndName(5), BOT_TOKEN),
     [Signed(IdOnly(5), BOT_TOKEN) EXCEPT ![IdKey] = NumToString(-7)]}

\* session.data.session?.user.id of the server's one Supabase client
Sessions == {"u2", NoUser}

\* ------------------------------------------------------------------------
\* State
\* ------------------------------------------------------------------------
VARIABLES
    linkingCodes,   \* the Map code -> {userId, timestamp}
    timers,         \* pending setTimeout callbacks, in firing order
    clock,          \* Date.now(), as the number of codes issued so far
    links,          \* table user_telegram_settings, keyed by user_id
    inflight,       \* handler invocations suspended at an await
    issued,         \* history: timestamp -> the entry initiate registered
    linkSrc,        \* history: user_id -> the invocation that wrote its row
    successes,      \* history: timestamp -> number of Success replies for it
    failures,       \* history: timestamps a redeem answered PersistenceFailed for
    P,              \* verification: the payload as the widget signed it
    Q,              \* verification: the payload as the callback receives it
    secret,         \* verification: the bot token of the verifying server
    verdict,        \* verification: what validateTelegramHash answered for Q
    calls,          \* upload: number of POST /api/upload requests so far
    uploads,        \* upload: invocations suspended at an await
    sent,           \* upload: the documents Telegram delivered to a chat
    files,          \* upload: table files
    answered        \* upload: history: request number -> what it was answered

vars == <<linkingCodes, timers, clock, links, inflight, issued, linkSrc,
          successes, failures, P, Q, secret, verdict, calls, uploads, sent, files,
          answered>>
pairing == <<linkingCodes, timers, clock, links, inflight, issued, linkSrc,
             successes, failures>>
verifying == <<P, Q, secret, verdict>>
uploading == <<calls, uploads, sent, files, answered>>

NoPayload == [k \in {} |-> <<>>]

\* a suspended invocation
Invocation(h, pc, userId, chat, username, code, ts, data, error, hadLink) ==
    [h |-> h, pc |-> pc, userId |-> userId, chat |-> chat, username |-> username,
     code |-> code, ts |-> ts, data |-> data, error |-> error, hadLink |-> hadLink]

\* Map.prototype.set
MapSet(m, k, v) == [x \in DOMAIN m \cup {k} |-> IF x = k THEN v ELSE m[x]]
\* Map.prototype.delete
MapDelete(m, k) == [x \in DOMAIN m \ {k} |-> m[x]]

Init ==
    /\ linkingCodes = [c \in {} |-> 0]
    /\ timers = <<>>
    /\ clock = 0
    /\ links = [u \in {} |-> 0]
    /\ inflight = {}
    /\ issued = <<>>
    /\ linkSrc = [u \in {} |-> 0]
    /\ successes = <<>>
    /\ failures = {}
    /\ P = NoPayload
    /\ Q = NoPayload
    /\ secret = <<>>
    /\ verdict = "unset"
    /\ calls = 0
    /\ uploads = {}
    /\ sent = {}
    /\ files = {}
    /\ answered = <<>>

\* ------------------------------------------------------------------------
\* Credential Store
\* ------------------------------------------------------------------------
\* .select('telegram_chat_id').eq('user_id', userId).single(): the row, no
\* row (PGRST116), or another failure
SelectOutcomes(userId) ==
    {[data |-> <<>>, error |-> "other"]} \cup
    (IF userId \in DOMAIN links
       THEN {[data |-> <<links[userId]>>, error |-> "none"]}
       ELSE {[data |-> <<>>, error |-> "PGRST116"]})

\* return data ? data.telegram_chat_id : null
getTelegramChatId(res) ==
    IF res.data # <<>> THEN res.data[1].telegram_chat_id ELSE Null

\* the row an upsert of r leaves under r.userId: the widget writes the
\* username column, the bot leaves it as it is
UpsertRow(r) ==
    [telegram_chat_id |-> r.chat,
     telegram_username |->
        IF r.h = "widget" THEN r.username
        ELSE IF r.userId \in DOMAIN links THEN links[r.userId].telegram_username
        ELSE Null]

\* the store executes the upsert of a suspended invocation, or fails it
StoreUpsert(r) ==
    /\ r \in inflight
    /\ r.pc = "upsert"
    /\ \/ /\ links' = MapSet(links, r.userId, UpsertRow(r))
          /\ linkSrc' = MapSet(linkSrc, r.userId, r)
          /\ inflight' = (inflight \ {r}) \cup {[r EXCEPT !.pc = "resume", !.error = FALSE]}
       \/ /\ inflight' = (inflight \ {r}) \cup {[r EXCEPT !.pc = "resume", !.error = TRUE]}
          /\ UNCHANGED <<links, linkSrc>>
    /\ UNCHANGED <<linkingCodes, timers, clock, issued, successes, failures, verifying, uploading>>

\* ------------------------------------------------------------------------
\* Code Pairing Registry (src/unnamed/part_000)
\* ------------------------------------------------------------------------
Suspended(h) == {r \in inflight : r.h = h}

\* POST /api/link/initiate up to the await of getTelegramChatId: the store
\* answers the lookup now, the handler resumes later. No more calls are
\* taken than codes may still be issued.
InitiateCall(userId) ==
    /\ Cardinality(inflight) < MaxInFlight
    /\ clock + Cardinality(Suspended("initiate")) < MaxIssued
    /\ \E res \in SelectOutcomes(userId) :
          inflight' = inflight \cup
              {Invocation("initiate", "resume", userId, getTelegramChatId(res), Null,
                          Null, 0, NoPayload, res.error = "other", userId \in DOMAIN links)}
    /\ UNCHANGED <<linkingCodes, timers, clock, links, issued, linkSrc, successes, failures, verifying, uploading>>

\* crypto.randomBytes(3).toString('hex').toUpperCase()
NewCode(bytes) == ToUpperCase(ToHex(bytes))

\* if (existingLink) return ... linked: true
AlreadyLinked(r) == Truthy(r.chat)

\* a registry that keeps one code per user
RegisterOnePerOwner(code, userId) ==
    [x \in {c \in DOMAIN linkingCodes : linkingCodes[c].userId # userId} \cup {code} |->
        IF x = code THEN [userId |-> userId, timestamp |-> clock + 1] ELSE linkingCodes[x]]

\* a registry that keeps the entry of a code value that is live
RegisterKeepFirst(code, userId) ==
    IF code \in DOMAIN linkingCodes THEN linkingCodes
    ELSE [x \in DOMAIN linkingCodes \cup {code} |->
            IF x = code THEN [userId |-> userId, timestamp |-> clock + 1]
            ELSE linkingCodes[x]]

\* linkingCodes.set(code, { userId, timestamp: Date.now() })
Register(code, userId) ==
    MapSet(linkingCodes, code, [userId |-> userId, timestamp |-> clock + 1])

\* POST /api/link/initiate from the await on
InitiateResume(r) ==
    /\ r \in inflight
    /\ r.h = "initiate"
    /\ inflight' = inflight \ {r}
    /\ IF AlreadyLinked(r)
         THEN UNCHANGED <<linkingCodes, timers, clock, issued, successes>>
         ELSE \E bytes \in RandomBytes :
                LET code == NewCode(bytes) IN
                /\ linkingCodes' = Register(code, r.userId)
                /\ timers' = Append(timers, [code |-> code, ts |-> clock + 1])
                /\ clock' = clock + 1
                /\ issued' = Append(issued, [code |-> code, userId |-> r.userId])
                /\ successes' = Append(successes, 0)
    /\ UNCHANGED <<links, linkSrc, failures, verifying, uploading>>

LowerChar(c) == IF c >= 65 /\ c <= 90 THEN c + 32 ELSE c

\* the callback deletes the hex string as randomBytes gave it, in lower case
ExpireLowerCase(timer) ==
    MapDelete(linkingCodes, [i \in 1..Len(timer.code) |-> LowerChar(timer.code[i])])

\* setTimeout(() => { linkingCodes.delete(code); }, 10 * 60 * 1000)
Expire(timer) == MapDelete(linkingCodes, timer.code)

\* the callback of setTimeout; timers of equal delay fire in the order set
TimerFire ==
    /\ timers # <<>>
    /\ linkingCodes' = Expire(Head(timers))
    /\ timers' = Tail(timers)
    /\ UNCHANGED <<clock, links, inflight, issued, linkSrc, successes, failures, verifying, uploading>>

\* ctx.message.text.trim().toUpperCase()
ReceivedCode(text) == ToUpperCase(Trim(text))

\* if (linkingCodes.has(receivedCode))
Matches(text) == ReceivedCode(text) \in DOMAIN linkingCodes

\* bot.on('text') up to the await of the upsert; a text that matches no
\* code is answered with the help message at once
RedeemText(text, chatId) ==
    LET receivedCode == ReceivedCode(text)
        telegramChatId == NumToString(chatId)
    IN  /\ IF Matches(text)
             THEN /\ Cardinality(inflight) < MaxInFlight
                  /\ inflight' = inflight \cup
                        {Invocation("redeem", "upsert", linkingCodes[receivedCode].userId,
                                    telegramChatId, Null, receivedCode,
                                    linkingCodes[receivedCode].timestamp, NoPayload,
                                    FALSE, FALSE)}
             ELSE UNCHANGED inflight
        /\ UNCHANGED <<linkingCodes, timers, clock, links, issued, linkSrc, successes,
                       failures, verifying, uploading>>

\* what bot.on('text') replies once the upsert has answered
RedeemReply(r) == IF r.error THEN "PersistenceFailed" ELSE "Success"

\* the code is removed whatever the upsert answered
ConsumeAlways(r) == MapDelete(linkingCodes, r.code)

\* if (error) return; ... linkingCodes.delete(receivedCode)
Consume(r) == IF r.error THEN linkingCodes ELSE MapDelete(linkingCodes, r.code)

\* bot.on('text') from the await on
RedeemResume(r) ==
    /\ r \in inflight
    /\ r.h = "redeem"
    /\ r.pc = "resume"
    /\ inflight' = inflight \ {r}
    /\ linkingCodes' = Consume(r)
    /\ successes' = IF RedeemReply(r) = "Success"
                      THEN [successes EXCEPT ![r.ts] = @ + 1] ELSE successes
    /\ failures' = IF RedeemReply(r) = "PersistenceFailed"
                     THEN failures \cup {r.ts} ELSE failures
    /\ UNCHANGED <<timers, clock, links, issued, linkSrc, verifying, uploading>>

\* res.send({ linked: !!telegramChatId, telegramChatId })
StatusReply(res) ==
    [linked |-> Truthy(getTelegramChatId(res)), telegramChatId |-> getTelegramChatId(res)]

\* GET /api/link/status: it reads the store and answers, and changes nothing
LinkStatus(userId) ==
    /\ \E res \in SelectOutcomes(userId) : StatusReply(res).linked \in BOOLEAN
    /\ UNCHANGED vars

\* ------------------------------------------------------------------------
\* Widget callback (src/server.js)
\* ------------------------------------------------------------------------
\* the hash is not looked at
AuthenticUnchecked(userData) == TRUE

\* if (!validateTelegramHash(userData)) return res.redirect(...)
Authentic(userData) == validateTelegramHash(userData, BOT_TOKEN)

\* GET /api/auth/telegram up to the await of the upsert; session is
\* session.data.session?.user.id. The requests that are turned away (bad
\* hash, no session) or throw (no id) leave no trace
WidgetCall(userData, session) ==
    /\ IF Authentic(userData) /\ IdKey \in DOMAIN userData /\ session # NoUser
         THEN /\ Cardinality(inflight) < MaxInFlight
              /\ inflight' = inflight \cup
                    {Invocation("widget", "upsert", session, userData[IdKey],
                                IF UsernameKey \in DOMAIN userData
                                  THEN userData[UsernameKey] ELSE Null,
                                Null, 0, userData, FALSE, FALSE)}
         ELSE UNCHANGED inflight
    /\ UNCHANGED <<linkingCodes, timers, clock, links, issued, linkSrc, successes, failures, verifying, uploading>>

\* GET /api/auth/telegram from the await on
WidgetResume(r) ==
    /\ r \in inflight
    /\ r.h = "widget"
    /\ r.pc = "resume"
    /\ inflight' = inflight \ {r}
    /\ UNCHANGED <<linkingCodes, timers, clock, links, issued, linkSrc, successes, failures, verifying, uploading>>

Next ==
    \/ \E userId \in Users : InitiateCall(userId)
    \/ \E r \in inflight : InitiateResume(r)
    \/ TimerFire
    \/ \E text \in Texts, chatId \in Chats : RedeemText(text, chatId)
    \/ \E r \in inflight : StoreUpsert(r)
    \/ \E r \in inflight : RedeemResume(r)
    \/ \E userId \in Users : LinkStatus(userId)
    \/ \E userData \in WidgetRequests, session \in Sessions :
          WidgetCall(userData, session)
    \/ \E r \in inflight : WidgetResume(r)

Spec == Init /\ [][Next]_vars

\* ------------------------------------------------------------------------
\* Verification of widget payloads: validateTelegramHash applied to payloads
\* that were signed and then changed on the way
\* ------------------------------------------------------------------------
\* field names "a", "a=", "b" and values "a", "=a", "a\nb=a"
FieldNames == {<<97>>, <<97, 61>>, <<98>>}
FieldValues == {<<97>>, <<61, 97>>, <<97, 10, 98, 61, 97>>}
Tokens == {BOT_TOKEN, OtherToken}

FieldSets == UNION {[S -> FieldValues] : S \in SUBSET FieldNames}

\* the fields of a payload besides hash
NonHash(data) == [k \in DOMAIN data \ {HashKey} |-> data[k]]

InitVerify ==
    /\ linkingCodes = [c \in {} |-> 0]
    /\ timers = <<>>
    /\ clock = 0
    /\ links = [u \in {} |-> 0]
    /\ inflight = {}
    /\ issued = <<>>
    /\ linkSrc = [u \in {} |-> 0]
    /\ successes = <<>>
    /\ failures = {}
    /\ \E fields \in FieldSets, token \in Tokens : P = Signed(fields, token)
    /\ Q = P
    /\ secret \in Tokens
    /\ verdict = "unset"
    /\ calls = 0
    /\ uploads = {}
    /\ sent = {}
    /\ files = {}
    /\ answered = <<>>

ChangeField(k, v) ==
    /\ k \in DOMAIN Q \ {HashKey}
    /\ Q' = [Q EXCEPT ![k] = v]
    /\ verdict' = "unset"
    /\ UNCHANGED <<pairing, P, secret, uploading>>

AddField(k, v) ==
    /\ k \notin DOMAIN Q
    /\ Q' = [x \in DOMAIN Q \cup {k} |-> IF x = k THEN v ELSE Q[x]]
    /\ verdict' = "unset"
    /\ UNCHANGED <<pairing, P, secret, uploading>>

RemoveField(k) ==
    /\ k \in DOMAIN Q \ {HashKey}
    /\ Q' = [x \in DOMAIN Q \ {k} |-> Q[x]]
    /\ verdict' = "unset"
    /\ UNCHANGED <<pairing, P, secret, uploading>>

\* the server runs with another TELEGRAM_BOT_TOKEN, or with none
UseSecret(token) ==
    /\ secret' = token
    /\ verdict' = "unset"
    /\ UNCHANGED <<pairing, P, Q, uploading>>

Verify ==
    /\ verdict' = IF validateTelegramHash(Q, secret) THEN "true" ELSE "false"
    /\ UNCHANGED <<pairing, P, Q, secret, uploading>>

NextVerify ==
    \/ \E k \in FieldNames, v \in FieldValues : ChangeField(k, v)
    \/ \E k \in FieldNames, v \in FieldValues : AddField(k, v)
    \/ \E k \in FieldNames : RemoveField(k)
    \/ \E token \in Tokens \cup {<<>>} : UseSecret(token)
    \/ Verify

SpecVerify == InitVerify /\ [][NextVerify]_vars

\* ------------------------------------------------------------------------
\* Claims about the Hash Verifier (checked under SpecVerify)
\* ------------------------------------------------------------------------
\* the secret P was signed under
Signer(data) == data[HashKey].key.msg

\* no field name holds '=' or a newline, and no value holds a newline
WellFormed(data) ==
    \A k \in DOMAIN data \ {HashKey} :
        /\ \A i \in 1..Len(k) : k[i] \notin {61, 10}
        /\ \A i \in 1..Len(data[k]) : data[k][i] # 10

\* C7 as stated: a payload signed under a secret verifies under that secret
\* only, and no payload whose fields besides hash differ from the signed
\* ones verifies with the same hash, whatever strings names and values are.
C7_AnyMutationFlipsVerify ==
    verdict = "true" => (secret = Signer(P) /\ NonHash(Q) = NonHash(P))

\* C7 amended: the same, for payloads whose field names hold neither '='
\* nor a newline and whose values hold no newline, before and after the
\* change.
C7_WellFormedMutationFlipsVerify ==
    (verdict = "true" /\ WellFormed(P) /\ WellFormed(Q))
        => (secret = Signer(P) /\ NonHash(Q) = NonHash(P))

\* a signed well-formed payload was changed into another well-formed one
\* and failed to verify under the secret it was signed with
C7_Witness ==
    /\ verdict = "false"
    /\ secret = Signer(P)
    /\ WellFormed(P) /\ WellFormed(Q)
    /\ DOMAIN NonHash(P) # {} /\ NonHash(Q) # NonHash(P)
    /\ Q[HashKey] = P[HashKey]

\* ------------------------------------------------------------------------
\* Claims about the pairing protocol (checked under Spec)
\* ------------------------------------------------------------------------
Stamps == 1..Len(issued)

\* the timestamps whose timer has fired
expired == {t \in Stamps : \A i \in 1..Len(timers) : timers[i].ts # t}

\* the entry that log has at timestamp t is the one in the registry reg
LiveIn(reg, log, t) ==
    /\ log[t].code \in DOMAIN reg
    /\ reg[log[t].code].timestamp = t

Live(t) == LiveIn(linkingCodes, issued, t)

\* the step is the resumption of the suspended invocation r
Resumes(r) == r \in inflight /\ r.pc = "resume" /\ r \notin inflight'

\* the step is the store's execution of the upsert of r
Executes(r) == r \in inflight /\ r.pc = "upsert" /\ r \notin inflight'

\* the step suspends the new invocation r at the await of its upsert
Suspends(r) == r \in inflight' /\ r \notin inflight /\ r.pc = "upsert"

\* C1: of the redeem attempts made with one registered code, concurrent or
\* not, at most one answers Success; the others find the code consumed.
C1_NoDoubleLink == \A t \in Stamps : successes[t] <= 1

\* C2: every row of user_telegram_settings was written for a widget
\* callback whose payload validateTelegramHash accepts and whose id is the
\* chat id of the row, or for a chat message whose text matched a code that
\* initiate had registered for the user of the row.
C2_LinksAreProven ==
    \A u \in DOMAIN links :
        LET w == linkSrc[u] IN
        /\ w.userId = u
        /\ links[u].telegram_chat_id = w.chat
        /\ \/ /\ w.h = "widget"
              /\ validateTelegramHash(w.data, BOT_TOKEN)
              /\ w.data[IdKey] = w.chat
           \/ /\ w.h = "redeem"
              /\ w.ts \in Stamps
              /\ issued[w.ts] = [code |-> w.code, userId |-> u]

\* one user is linked through the widget and another through a code
C2_Witness ==
    \E u, v \in DOMAIN links : linkSrc[u].h = "widget" /\ linkSrc[v].h = "redeem"

\* C3: a redeem whose upsert failed answers PersistenceFailed and leaves
\* the registry as it is; the failed upsert leaves the table as it is; and
\* a redeem removes its code only when its upsert succeeded.
C3_FailedRedeemKeepsCode ==
    [][\A r \in inflight :
          /\ (r.h = "redeem" /\ Resumes(r) /\ r.error)
                => /\ RedeemReply(r) = "PersistenceFailed"
                   /\ linkingCodes' = linkingCodes
                   /\ links' = links
          /\ (r.h = "redeem" /\ Resumes(r) /\ linkingCodes' # linkingCodes)
                => /\ ~r.error
                   /\ RedeemReply(r) = "Success"
                   /\ linkingCodes' = MapDelete(linkingCodes, r.code)
          /\ (r.h = "redeem" /\ Executes(r)
                /\ [r EXCEPT !.pc = "resume", !.error = FALSE] \notin inflight')
                => links' = links
      ]_vars

\* a redeem answered PersistenceFailed and its code is still in the registry
C3_Witness == \E t \in failures : Live(t) /\ successes[t] = 0

\* C4: once the timer of a registered code has fired, no redeem of that
\* code writes a row or answers Success, not even one that matched the
\* code before and was awaiting the store.
C4_NoLinkAfterExpiry ==
    [][\A r \in inflight :
          (r.h = "redeem" /\ r.ts \in expired /\ r \notin inflight')
              => (links' = links /\ successes' = successes)
      ]_vars

\* C5: an initiate that resumes while its user has a row answers
\* linked: true, registers no code and sets no timer.
C5_NoCodeForLinkedOwner ==
    [][\A r \in inflight :
          (r.h = "initiate" /\ Resumes(r) /\ r.userId \in DOMAIN links)
              => /\ AlreadyLinked(r)
                 /\ linkingCodes' = linkingCodes
                 /\ timers' = timers
      ]_vars

\* the step registers an entry, at timestamp clock + 1
Registers == clock' = clock + 1

\* the codes of a redeemed entry's companions stay as they are
OnlyOwnCodeRemoved ==
    \A r \in inflight :
        (r.h = "redeem" /\ Resumes(r))
            => \A c \in DOMAIN linkingCodes \ {r.code} :
                  c \in DOMAIN linkingCodes' /\ linkingCodes'[c] = linkingCodes[c]

C8_StoreFailureIsNotUnlinked ==
    [][/\ \A u \in DOMAIN links : \A res \in SelectOutcomes(u) :
             res.error = "other" => StatusReply(res).linked
       /\ \A r \in inflight :
             (r.h = "initiate" /\ Resumes(r) /\ r.error /\ r.hadLink)
                 => (linkingCodes' = linkingCodes /\ timers' = timers)
      ]_vars

\* C9: a timer that fires removes no entry but the one its initiate call
\* registered.
C9_TimerRemovesOnlyOwnEntry ==
    [][(timers # <<>> /\ timers' = Tail(timers))
          => \A c \in DOMAIN linkingCodes :
                linkingCodes[c].timestamp # Head(timers).ts
                    => (c \in DOMAIN linkingCodes' /\ linkingCodes'[c] = linkingCodes[c])
      ]_vars

\* the last timestamp at which code was registered
Latest(code) ==
    CHOOSE t \in Stamps :
        /\ issued[t].code = code
        /\ \A t2 \in Stamps : issued[t2].code = code => t2 <= t

\* a redeem's upsert touches no row but that of the user it carries
OnlyOwnRowWritten ==
    \A r \in inflight :
        (r.h = "redeem" /\ Executes(r))
            => \A u \in DOMAIN links' \ {r.userId} :
                  u \in DOMAIN links /\ links'[u] = links[u]

NextRegistry ==
    \/ \E userId \in Users : InitiateCall(userId)
    \/ \E r \in inflight : InitiateResume(r)
    \/ TimerFire
    \/ \E text \in Texts, chatId \in Chats : RedeemText(text, chatId)
    \/ \E r \in inflight : StoreUpsert(r)
    \/ \E r \in inflight : RedeemResume(r)

SpecExpiry == Init /\ [][NextRegistry]_vars /\ WF_vars(TimerFire)

\* the code values initiate can register
Codes == {NewCode(bytes) : bytes \in RandomBytes}

\* C11: every code in the registry is absent from it at some later time,
\* and whenever no timer is pending the registry is empty, whatever redeems
\* failed.
C11_RegistryDrains ==
    /\ \A c \in Codes : (c \in DOMAIN linkingCodes) ~> (c \notin DOMAIN linkingCodes)
    /\ [](timers = <<>> => DOMAIN linkingCodes = {})

\* codes were registered, none was redeemed with Success, a redeem failed,
\* all timers have fired and the registry is empty
C11_Witness ==
    /\ clock > 0
    /\ failures # {}
    /\ \A t \in Stamps : successes[t] = 0
    /\ timers = <<>>
    /\ DOMAIN linkingCodes = {}


\* ---------------------------------------------------------------------------
\* POST /api/upload
\* ---------------------------------------------------------------------------

MaxUploads == 2

NoFile == [originalname |-> "", mimetype |-> ""]
UploadedFiles == {[originalname |-> "a.txt", mimetype |-> "text/plain"]}

\* what axios.post gave back: it threw, or data.result with its optional fields
NoResponse == [thrown |-> FALSE, document |-> <<>>, photo |-> <<>>]
Thrown == [thrown |-> TRUE, document |-> <<>>, photo |-> <<>>]
FileId(uid, kind) == [uid |-> uid, kind |-> kind]
SendOutcomes(uid) ==
    { Thrown,
      [thrown |-> FALSE, document |-> <<FileId(uid, "document")>>, photo |-> <<>>],
      [thrown |-> FALSE, document |-> <<>>,
       photo |-> << <<FileId(uid, "small"), FileId(uid, "large")>> >>],
      [thrown |-> FALSE, document |-> <<>>, photo |-> << <<>> >>],
      [thrown |-> FALSE, document |-> <<>>, photo |-> <<>>] }

\* the file ids Telegram assigned to what it delivered
Delivered(response) ==
    {response.document[i] : i \in 1..Len(response.document)}
        \cup (IF response.photo = <<>> THEN {}
              ELSE {response.photo[1][i] : i \in 1..Len(response.photo[1])})

\* result = document || (photo ? photo.pop() : null); result?.file_id
TelegramFileId(response) ==
    IF response.document # <<>> THEN response.document
    ELSE IF response.photo = <<>> THEN <<>>
    ELSE IF response.photo[1] = <<>> THEN <<>>
    ELSE <<response.photo[1][Len(response.photo[1])]>>

Upload(uid, userId, file, pc, chat, response, fileId, dbError) ==
    [uid |-> uid, userId |-> userId, file |-> file, pc |-> pc, chat |-> chat,
     response |-> response, fileId |-> fileId, dbError |-> dbError]

Answer(status, r) == answered' = MapSet(answered, r.uid, [status |-> status, r |-> r])

\* the handler up to its first await: 400 without a file, else the lookup
UploadCall(userId, file) ==
    /\ calls < MaxUploads
    /\ calls' = calls + 1
    /\ IF file = NoFile
         THEN /\ Answer(400, Upload(calls + 1, userId, file, "call", Null, NoResponse,
                                    <<>>, FALSE))
              /\ UNCHANGED uploads
         ELSE /\ \E res \in SelectOutcomes(userId) :
                    uploads' = uploads \cup
                        {Upload(calls + 1, userId, file, "lookup",
                                getTelegramChatId(res), NoResponse, <<>>, FALSE)}
              /\ UNCHANGED answered
    /\ UNCHANGED <<sent, files, pairing, verifying>>

NotLinked(r) == ~Truthy(r.chat)

\* after the lookup: 403 without a chat id, else the sendDocument request
UploadSend(r) ==
    /\ r.pc = "lookup"
    /\ IF NotLinked(r)
         THEN /\ Answer(403, r)
              /\ uploads' = uploads \ {r}
         ELSE /\ uploads' = (uploads \ {r}) \cup {[r EXCEPT !.pc = "send"]}
              /\ UNCHANGED answered
    /\ UNCHANGED <<calls, sent, files, pairing, verifying>>

\* Telegram serves sendDocument
TelegramSend(r) ==
    /\ r.pc = "send"
    /\ \E response \in SendOutcomes(r.uid) :
         /\ uploads' = (uploads \ {r}) \cup
                {[r EXCEPT !.pc = "sent", !.response = response]}
         /\ IF response.thrown
              THEN UNCHANGED sent
              ELSE sent' = sent \cup {[uid |-> r.uid, userId |-> r.userId,
                                       chat_id |-> r.chat, ids |-> Delivered(response)]}
    /\ UNCHANGED <<calls, files, answered, pairing, verifying>>

\* after the send: 500 from the catch or without a file id, else the insert
UploadInsert(r) ==
    /\ r.pc = "sent"
    /\ IF r.response.thrown \/ TelegramFileId(r.response) = <<>>
         THEN /\ Answer(500, r)
              /\ uploads' = uploads \ {r}
         ELSE /\ uploads' = (uploads \ {r}) \cup
                    {[r EXCEPT !.pc = "insert", !.fileId = TelegramFileId(r.response)]}
              /\ UNCHANGED answered
    /\ UNCHANGED <<calls, sent, files, pairing, verifying>>

FileRow(r) ==
    [user_id |-> r.userId, telegram_file_id |-> r.fileId[1],
     original_filename |-> r.file.originalname, mime_type |-> r.file.mimetype]

\* the store serves the insert: the row is added, or an error comes back
StoreInsert(r) ==
    /\ r.pc = "insert"
    /\ \E dbError \in BOOLEAN :
         /\ uploads' = (uploads \ {r}) \cup
                {[r EXCEPT !.pc = "inserted", !.dbError = dbError]}
         /\ files' = IF dbError THEN files ELSE files \cup {FileRow(r)}
    /\ UNCHANGED <<calls, sent, answered, pairing, verifying>>

\* after the insert: 500 on dbError, else 201
UploadAnswer(r) ==
    /\ r.pc = "inserted"
    /\ IF r.dbError THEN Answer(500, r) ELSE Answer(201, r)
    /\ uploads' = uploads \ {r}
    /\ UNCHANGED <<calls, sent, files, pairing, verifying>>

NextUpload ==
    \/ \E request \in WidgetRequests, session \in Sessions : WidgetCall(request, session)
    \/ \E r \in inflight : StoreUpsert(r)
    \/ \E r \in inflight : WidgetResume(r)
    \/ \E userId \in Users, file \in UploadedFiles \cup {NoFile} : UploadCall(userId, file)
    \/ \E r \in uploads : UploadSend(r)
    \/ \E r \in uploads : TelegramSend(r)
    \/ \E r \in uploads : UploadInsert(r)
    \/ \E r \in uploads : StoreInsert(r)
    \/ \E r \in uploads : UploadAnswer(r)

SpecUpload == Init /\ [][NextUpload]_vars


\* ---------------------------------------------------------------------------
\* Upload claims
\* ---------------------------------------------------------------------------

RowsOf(uid) == {row \in files : row.telegram_file_id.uid = uid}
SentOf(uid) == {m \in sent : m.uid = uid}
HadFile(a) == a.r.file # NoFile
GotFileId(a) == ~a.r.response.thrown /\ TelegramFileId(a.r.response) # <<>>

\* a row exists only after the lookup found a chat id and the send to that
\* chat returned the file id the row holds
RowOnlyAfterLookupAndSend ==
    \A row \in files :
        /\ row.user_id \in DOMAIN links
        /\ \E m \in sent :
             /\ m.uid = row.telegram_file_id.uid
             /\ m.userId = row.user_id
             /\ Truthy(m.chat_id)
             /\ row.telegram_file_id \in m.ids

\* without a chat id the handler stops at 403: nothing sent, no row
Unlinked403 ==
    /\ \A r \in uploads : r.pc # "lookup" => Truthy(r.chat)
    /\ \A uid \in DOMAIN answered :
         HadFile(answered[uid]) /\ ~Truthy(answered[uid].r.chat)
            => /\ answered[uid].status = 403
               /\ SentOf(uid) = {}
               /\ RowsOf(uid) = {}

\* a send that threw or gave no file id is answered 500 and leaves no row
FailedSend500 ==
    \A uid \in DOMAIN answered :
        HadFile(answered[uid]) /\ Truthy(answered[uid].r.chat) /\ ~GotFileId(answered[uid])
            => /\ answered[uid].status = 500
               /\ RowsOf(uid) = {}

\* once the handler has answered, a send that returned a file id has its row
SentFileHasRow ==
    \A uid \in DOMAIN answered :
        HadFile(answered[uid]) /\ GotFileId(answered[uid])
            => \E row \in RowsOf(uid) :
                  row.telegram_file_id = TelegramFileId(answered[uid].r.response)[1]

\* C12: a metadata row is inserted only after the linked chat id was found and
\* the send returned a file id; an unlinked user gets 403 with no send and no row;
\* a failed send or a missing file id gets 500 with no row; and every file sent
\* with a file id has its row once the handler has answered.
C12_RowIffSentWithFileId ==
    /\ RowOnlyAfterLookupAndSend
    /\ Unlinked403
    /\ FailedSend500
    /\ SentFileHasRow

====
